---- MODULE Spec2Model ----
(***************************************************************************)
(* Model of the availability query optimizer: the bounded-concurrency      *)
(* batch executor (utils/query-executor.ts), the orchestrator that runs    *)
(* it trial after trial (optimizer.ts), the date range and strategy        *)
(* generators, the command line script that starts a run, and the          *)
(* production client (availability-client/index.ts).                       *)
(*                                                                         *)
(* A step of the model is one synchronous run of JavaScript between two    *)
(* suspension points (an await, a promise callback) or one event of the    *)
(* environment (a request settling).  Continuations that are ready may run *)
(* in any order; this covers every order the event loop can produce.       *)
(***************************************************************************)
EXTENDS Integers, Sequences, FiniteSets, TLC

\* ---------------------------------------------------------------- bounds
MaxRanges == 3
MaxConcurrency == 3
MaxDuration == 3
MaxIterations == 2
MaxDaysAhead == 3
MaxTrials == 4
MaxDays == 31
MaxSamples == 3

VARIABLES
  \* --- one call of executeQueriesWithConcurrency
  ranges,        \* the ranges argument (a sequence of DateRange)
  concurrency,   \* the concurrency argument
  exPc,          \* position of the call: idle, race, all, done, rejected
  nextIdx,       \* index (1-based) of the next element of queryPromises
  inFlight,      \* the inFlight array: ids of the .then promises it holds
  awaited,       \* the promises handed to the pending Promise.race / Promise.all
  status,        \* per request: unstarted, pending, ok, err, recorded, removed
  failed,        \* per request: did executeQuery throw
  results,       \* the results array (ids of the requests that pushed)
  errors,        \* the errors array
  startCount,    \* per request: how many times its fetch was issued
  duration,      \* endTime - startTime once the call returned
  errorLogged,   \* did the call emit the console.error line
  \* --- the network
  batchNo,       \* number of the current call of the executor
  net,           \* requests on the wire: <<batch number, request id>>
  \* --- optimize() / testStrategy()
  config,        \* OptimizerConfig: daysAhead, iterations, strategies
  optPc,         \* position of optimize(): off, strategies, trials, batch, ranked, saved, returned
  strategyIdx,   \* index of the strategy under test
  iter,          \* the loop variable i of testStrategy (0-based)
  measurements,  \* testStrategy's measurements array
  totalErrors,   \* testStrategy's totalErrors counter
  chunkFailedIn, \* names of the strategies whose trials saw a chunk request fail
  optResults,    \* optimize()'s results array
  recommendation,\* the recommendation: absent (<<>>) or <<a StrategyResult>>
  \* --- a utility function called on its own
  utilFn,        \* the function called ("none" when none is)
  utilArgs,      \* its arguments
  utilRet,       \* its return value: absent (<<>>) until it returned, then <<value>>
  \* --- the command line script
  options,       \* program.opts(): endpoint, days, iterations, quick
  cliPc,         \* position of main(): off, main, optimizing, reported, exit1
  \* --- the file system
  fsCalls,       \* the calls of fs/promises made so far, in order
  \* --- AvailabilityClient
  clientConfig,     \* this.config: daysPerQuery, maxConcurrency, requestDelay
  clientDaysAhead,  \* the daysAhead of queryAvailability
  clientPc,         \* position of queryAvailability: off, idle, batch, delay, resolved
  dateRanges,       \* the ranges of generateDateRanges
  batchStart,       \* the loop variable i of executeQueriesConcurrently
  queryResult,      \* per range: absent (<<>>) or <<what executeQuery returned>>
  clientResults,    \* the results array of executeQueriesConcurrently
  clientStartCount, \* per range: how many times its request was issued
  delays            \* number of calls of this.delay

exVars == <<ranges, concurrency, exPc, nextIdx, inFlight, awaited, status, failed,
            results, errors, startCount, duration, errorLogged>>
netVars == <<batchNo, net>>
optVars == <<config, optPc, strategyIdx, iter, measurements, totalErrors,
             chunkFailedIn, optResults, recommendation>>
utilVars == <<utilFn, utilArgs, utilRet>>
cliVars == <<options, cliPc>>
fsVars == <<fsCalls>>
clientVars == <<clientConfig, clientDaysAhead, clientPc, dateRanges, batchStart,
                queryResult, clientResults, clientStartCount, delays>>
\* What the executor never touches.
sideVars == <<utilVars, cliVars, fsVars, clientVars>>
\* What only the optimizer and the client touch.
restVars == <<fsVars, clientVars>>
vars == <<exVars, netVars, optVars, utilVars, cliVars, fsVars, clientVars>>

\* ------------------------------------------------------- small helpers
Min(a, b) == IF a <= b THEN a ELSE b

Range(s) == {s[i] : i \in 1..Len(s)}

K == Len(ranges)

Ids == 1..K

\* Variant of IndexOf whose lookup misses.
IndexOfNeverFound(arr, x) == -1

\* Array.prototype.indexOf: the 0-based index of x in arr, -1 when absent.
IndexOf(arr, x) ==
  IF \E i \in 1..Len(arr) : arr[i] = x
  THEN (CHOOSE i \in 1..Len(arr) : arr[i] = x /\ \A j \in 1..(i-1) : arr[j] # x) - 1
  ELSE -1

\* Array.prototype.splice(start, 1): a negative start counts from the end.
Splice1(arr, start) ==
  LET len == Len(arr)
      from == IF start < 0 THEN (IF len + start < 0 THEN 0 ELSE len + start)
              ELSE Min(start, len)
  IN  IF from >= len THEN arr
      ELSE [i \in 1..(len - 1) |-> IF i <= from THEN arr[i] ELSE arr[i + 1]]

\* ------------------------------------------------------- executeQuery
\* What the endpoint can answer: fetch rejects, a non-OK status, a body with
\* errors, or data.
Responses == {"network", "http", "graphql", "data"}

\* executeQuery: TRUE when it throws.
ExecuteQueryThrows(resp) ==
  \/ resp = "network"     \* fetch rejected
  \/ resp = "http"        \* !response.ok
  \/ resp = "graphql"     \* data.errors

\* ------------------------------ executeQueriesWithConcurrency: the loop
\* The for loop run synchronously from element i with inFlight = fl, up to
\* its next suspension: the await of Promise.race when the window is full,
\* or the await of Promise.all after the last element.
\* Variant of LoopRun whose window test is off by one (length > limit).
RECURSIVE LoopRunOffByOne(_, _, _, _)
LoopRunOffByOne(i, fl, c, n) ==
  IF i > n THEN [pc |-> "all", i |-> i, fl |-> fl]
  ELSE IF Len(fl) > c THEN [pc |-> "race", i |-> i, fl |-> fl]
  ELSE LoopRunOffByOne(i + 1, Append(fl, i), c, n)

\* n is queryPromises.length.
RECURSIVE LoopRun(_, _, _, _)
LoopRun(i, fl, c, n) ==
  IF i > n THEN [pc |-> "all", i |-> i, fl |-> fl]
  ELSE IF Len(fl) >= c THEN [pc |-> "race", i |-> i, fl |-> fl]
  ELSE LoopRun(i + 1, Append(fl, i), c, n)

\* The requests issued by a synchronous run that took inFlight from fl0 to fl1.
Issued(fl0, fl1) == {fl1[j] : j \in (Len(fl0) + 1)..Len(fl1)}

\* Promise.race(ps) is resolved once one of ps is; Promise.all(ps) once all are.
\* A .then promise of the loop is resolved when its callback has run.
\* Variant of RaceResolved that waits for the whole window (fixed batching).
RaceResolvedWholeWindow(ps) == \A p \in ps : status[p] = "removed"

\* Variant of RaceResolved in which a race over no promise is resolved.
RaceResolvedWhenEmpty(ps) == ps = {} \/ \E p \in ps : status[p] = "removed"

RaceResolved(ps) == \E p \in ps : status[p] = "removed"

\* Variant of AllResolved that gives up waiting (a timeout).
AllResolvedOrTimedOut(ps) == TRUE

\* Variant of AllResolved that is satisfied by the first promise (a race).
AllResolvedFirst(ps) == ps = {} \/ \E p \in ps : status[p] = "removed"

AllResolved(ps) == \A p \in ps : status[p] = "removed"

\* State left by a synchronous run of the loop that ended in r.
Suspend(r, fl0) ==
  /\ exPc' = r.pc
  /\ nextIdx' = r.i
  /\ inFlight' = r.fl
  /\ awaited' = Range(r.fl)
  /\ status' = [j \in Ids |-> IF j \in Issued(fl0, r.fl) THEN "pending" ELSE status[j]]
  /\ startCount' = [j \in Ids |-> IF j \in Issued(fl0, r.fl)
                                  THEN startCount[j] + 1 ELSE startCount[j]]
  /\ net' = net \cup {<<batchNo, j>> : j \in Issued(fl0, r.fl)}

\* executeQueriesWithConcurrency(rs, _, c, ...) as call number b, up to its
\* first await: fresh results, errors and inFlight, then the loop.
Begin(rs, c, b) ==
  LET n == Len(rs)
      r == LoopRun(1, <<>>, c, n)
  IN  /\ ranges' = rs
      /\ concurrency' = c
      /\ batchNo' = b
      /\ exPc' = r.pc
      /\ nextIdx' = r.i
      /\ inFlight' = r.fl
      /\ awaited' = Range(r.fl)
      /\ status' = [j \in 1..n |-> IF j \in Range(r.fl) THEN "pending" ELSE "unstarted"]
      /\ failed' = [j \in 1..n |-> FALSE]
      /\ results' = <<>>
      /\ errors' = <<>>
      /\ startCount' = [j \in 1..n |-> IF j \in Range(r.fl) THEN 1 ELSE 0]
      /\ duration' = 0
      /\ errorLogged' = FALSE
      /\ net' = net \cup {<<b, j>> : j \in Range(r.fl)}

\* The executor called directly.
Call ==
  /\ exPc = "idle"
  /\ optPc = "off"
  /\ Begin(ranges, concurrency, batchNo)
  /\ UNCHANGED optVars
  /\ UNCHANGED sideVars

\* A request on the wire settles: the awaited executeQuery returns or throws.
Settle(b, i, resp) ==
  /\ <<b, i>> \in net
  /\ net' = net \ {<<b, i>>}
  /\ IF b = batchNo
     THEN /\ status' = [status EXCEPT ![i] = IF ExecuteQueryThrows(resp) THEN "err" ELSE "ok"]
          /\ failed' = [failed EXCEPT ![i] = ExecuteQueryThrows(resp)]
     ELSE UNCHANGED <<status, failed>>
  /\ UNCHANGED <<ranges, concurrency, exPc, nextIdx, inFlight, awaited, results, errors,
                 startCount, duration, errorLogged, batchNo, optVars>>
  /\ UNCHANGED sideVars

\* Variant of Record that issues a failed request again (a retry).
RecordRetry(i) ==
  /\ status[i] \in {"ok", "err"}
  /\ IF status[i] = "ok"
     THEN /\ results' = Append(results, i)
          /\ status' = [status EXCEPT ![i] = "recorded"]
          /\ UNCHANGED <<startCount, net>>
     ELSE /\ status' = [status EXCEPT ![i] = "pending"]
          /\ startCount' = [startCount EXCEPT ![i] = @ + 1]
          /\ net' = net \cup {<<batchNo, i>>}
          /\ UNCHANGED results
  /\ UNCHANGED <<ranges, concurrency, exPc, nextIdx, inFlight, awaited, failed, errors,
                 duration, errorLogged, batchNo, optVars>>
  /\ UNCHANGED sideVars

\* Variant of Record without the try/catch: the error rejects the call.
RecordFailFast(i) ==
  /\ status[i] \in {"ok", "err"}
  /\ IF status[i] = "ok"
     THEN results' = Append(results, i) /\ UNCHANGED exPc
     ELSE exPc' = "rejected" /\ UNCHANGED results
  /\ status' = [status EXCEPT ![i] = "recorded"]
  /\ UNCHANGED <<ranges, concurrency, nextIdx, inFlight, awaited, failed, errors,
                 startCount, duration, errorLogged, netVars, optVars>>
  /\ UNCHANGED sideVars

\* Variant of Record whose catch block also pushes a result.
RecordFailureAsResult(i) ==
  /\ status[i] \in {"ok", "err"}
  /\ IF status[i] = "ok"
     THEN results' = Append(results, i) /\ UNCHANGED errors
     ELSE errors' = Append(errors, i) /\ results' = Append(results, i)
  /\ status' = [status EXCEPT ![i] = "recorded"]
  /\ UNCHANGED <<ranges, concurrency, exPc, nextIdx, inFlight, awaited, failed,
                 startCount, duration, errorLogged, netVars, optVars>>
  /\ UNCHANGED sideVars

\* The rest of the queryPromise closure after its await: push to results,
\* or the catch block's push to errors.
Record(i) ==
  /\ status[i] \in {"ok", "err"}
  /\ IF status[i] = "ok"
     THEN results' = Append(results, i) /\ UNCHANGED errors
     ELSE errors' = Append(errors, i) /\ UNCHANGED results
  /\ status' = [status EXCEPT ![i] = "recorded"]
  /\ UNCHANGED <<ranges, concurrency, exPc, nextIdx, inFlight, awaited, failed,
                 startCount, duration, errorLogged, netVars, optVars>>
  /\ UNCHANGED sideVars

\* The .then callback: inFlight.splice(inFlight.indexOf(promise), 1).
ThenCallback(i) ==
  /\ status[i] = "recorded"
  /\ inFlight' = Splice1(inFlight, IndexOf(inFlight, i))
  /\ status' = [status EXCEPT ![i] = "removed"]
  /\ UNCHANGED <<ranges, concurrency, exPc, nextIdx, awaited, failed, results, errors,
                 startCount, duration, errorLogged, netVars, optVars>>
  /\ UNCHANGED sideVars

\* The loop resumes after await Promise.race(inFlight): it issues the element
\* it was holding (the length test is not repeated) and runs on.
RaceResume ==
  /\ exPc = "race"
  /\ RaceResolved(awaited)
  /\ Suspend(LoopRun(nextIdx + 1, Append(inFlight, nextIdx), concurrency, K), inFlight)
  /\ UNCHANGED <<ranges, concurrency, failed, results, errors, duration, errorLogged,
                 batchNo, optVars>>
  /\ UNCHANGED sideVars

\* The call resumes after await Promise.all(inFlight), logs and returns.
AllResume(d) ==
  /\ exPc = "all"
  /\ AllResolved(awaited)
  /\ exPc' = "done"
  /\ duration' = d
  /\ errorLogged' = (Len(errors) > 0)
  /\ UNCHANGED <<ranges, concurrency, nextIdx, inFlight, awaited, status, failed, results,
                 errors, startCount, netVars, optVars>>
  /\ UNCHANGED sideVars

Durations == 1..MaxDuration

ExecutorStep ==
  \/ \E b \in 1..batchNo, i \in Ids, resp \in Responses : Settle(b, i, resp)
  \/ \E i \in Ids : Record(i)
  \/ \E i \in Ids : ThenCallback(i)
  \/ RaceResume
  \/ \E d \in Durations : AllResume(d)

\* No utility function is called on its own.
UtilOff ==
  /\ utilFn = "none"
  /\ utilArgs = <<>>
  /\ utilRet = <<>>

\* The program is not run from the command line.
CliOff ==
  /\ options = [endpoint |-> "", days |-> <<>>, iterations |-> <<>>, quick |-> FALSE]
  /\ cliPc = "off"

\* Nothing has been written.
FsOff == fsCalls = <<>>

\* No AvailabilityClient is in use.
ClientOff ==
  /\ clientConfig = [daysPerQuery |-> 0, maxConcurrency |-> 0, requestDelay |-> 0]
  /\ clientDaysAhead = 0
  /\ clientPc = "off"
  /\ dateRanges = <<>>
  /\ batchStart = 0
  /\ queryResult = <<>>
  /\ clientResults = <<>>
  /\ clientStartCount = <<>>
  /\ delays = 0

\* The state of a call that has not run yet.
FreshCall(rs, c) ==
  /\ ranges = rs
  /\ concurrency = c
  /\ exPc = "idle"
  /\ nextIdx = 1
  /\ inFlight = <<>>
  /\ awaited = {}
  /\ status = [i \in 1..Len(rs) |-> "unstarted"]
  /\ failed = [i \in 1..Len(rs) |-> FALSE]
  /\ results = <<>>
  /\ errors = <<>>
  /\ startCount = [i \in 1..Len(rs) |-> 0]
  /\ duration = 0
  /\ errorLogged = FALSE

\* ------------------------------------------------- utils/date-utils.ts
\* Dates are day offsets from today's local midnight.  The while loop of
\* generateDateRanges from currentStart, with the ranges pushed so far.
\* Variant of DateRangeLoop whose loop test is currentStart <= finalEnd.
RECURSIVE DateRangeLoopInclusive(_, _, _, _)
DateRangeLoopInclusive(currentStart, finalEnd, daysPerChunk, acc) ==
  IF ~(currentStart <= finalEnd) THEN acc
  ELSE LET stepEnd == currentStart + daysPerChunk - 1
           currentEnd == IF stepEnd > finalEnd THEN finalEnd ELSE stepEnd
       IN  DateRangeLoopInclusive(currentEnd + 1, finalEnd, daysPerChunk,
                                  Append(acc, [start |-> currentStart, end |-> currentEnd]))

\* Variant of DateRangeLoop in which a range ends on the day the next one
\* starts.
RECURSIVE DateRangeLoopSharedBoundary(_, _, _, _)
DateRangeLoopSharedBoundary(currentStart, finalEnd, daysPerChunk, acc) ==
  IF ~(currentStart < finalEnd) THEN acc
  ELSE LET stepEnd == currentStart + daysPerChunk
           currentEnd == IF stepEnd > finalEnd THEN finalEnd ELSE stepEnd
       IN  DateRangeLoopSharedBoundary(currentEnd, finalEnd, daysPerChunk,
                                       Append(acc, [start |-> currentStart, end |-> currentEnd]))

\* Variant of DateRangeLoop that adds daysPerChunk, not daysPerChunk - 1.
RECURSIVE DateRangeLoopLongChunks(_, _, _, _)
DateRangeLoopLongChunks(currentStart, finalEnd, daysPerChunk, acc) ==
  IF ~(currentStart < finalEnd) THEN acc
  ELSE LET stepEnd == currentStart + daysPerChunk
           currentEnd == IF stepEnd > finalEnd THEN finalEnd ELSE stepEnd
       IN  DateRangeLoopLongChunks(currentEnd + 1, finalEnd, daysPerChunk,
                                   Append(acc, [start |-> currentStart, end |-> currentEnd]))

RECURSIVE DateRangeLoop(_, _, _, _)
DateRangeLoop(currentStart, finalEnd, daysPerChunk, acc) ==
  IF ~(currentStart < finalEnd) THEN acc
  ELSE LET stepEnd == currentStart + daysPerChunk - 1
           currentEnd == IF stepEnd > finalEnd THEN finalEnd ELSE stepEnd
       IN  DateRangeLoop(currentEnd + 1, finalEnd, daysPerChunk,
                         Append(acc, [start |-> currentStart, end |-> currentEnd]))

GenerateDateRanges(daysPerChunk, daysAhead) ==
  DateRangeLoop(0, 0 + daysAhead, daysPerChunk, <<>>)

\* ------------------------------------------------ utils/stats-utils.ts
\* Samples are positive numbers; the two non-numbers a metric can be are
\* kept as negative codes.
NaN == -1

Undefined == -2

IsNumber(x) == x >= 0

\* A number that need not be a whole one is kept as a fraction num/den in
\* lowest terms with den > 0; 0/0, the only division by zero there is, is NaN.
\* Arithmetic is exact: the rounding of IEEE doubles is left out.
RECURSIVE Gcd(_, _)
Gcd(a, b) == IF b = 0 THEN a ELSE Gcd(b, a % b)

Abs(x) == IF x < 0 THEN -x ELSE x

NaNFraction == [num |-> 0, den |-> 0]

Fraction(num, den) ==
  IF den = 0 THEN NaNFraction
  ELSE LET g == Gcd(Abs(num), Abs(den))
           sign == IF den < 0 THEN -1 ELSE 1
       IN  [num |-> (sign * num) \div g, den |-> (sign * den) \div g]

IsNaNFraction(x) == x.den = 0

FrAdd(x, y) ==
  IF IsNaNFraction(x) \/ IsNaNFraction(y) THEN NaNFraction
  ELSE Fraction(x.num * y.den + y.num * x.den, x.den * y.den)

FrSub(x, y) ==
  IF IsNaNFraction(x) \/ IsNaNFraction(y) THEN NaNFraction
  ELSE Fraction(x.num * y.den - y.num * x.den, x.den * y.den)

FrMul(x, y) ==
  IF IsNaNFraction(x) \/ IsNaNFraction(y) THEN NaNFraction
  ELSE Fraction(x.num * y.num, x.den * y.den)

\* Variant of FrDiv that guards the division by zero and yields 0.
FrDivGuarded(x, y) ==
  IF IsNaNFraction(x) \/ IsNaNFraction(y) THEN NaNFraction
  ELSE IF y.num = 0 THEN Fraction(0, 1)
  ELSE Fraction(x.num * y.den, x.den * y.num)

\* x / y; the dividend is 0 whenever the divisor is.
FrDiv(x, y) ==
  IF IsNaNFraction(x) \/ IsNaNFraction(y) THEN NaNFraction
  ELSE Fraction(x.num * y.den, x.den * y.num)

\* Math.sqrt(x), kept as the number it is the root of.
Sqrt(x) == [sqrtOf |-> x]

\* Variant of SortAscending that leaves the values in the order given.
SortAscendingNot(values) == values

\* [...values].sort((a, b) => a - b) over numbers.
RECURSIVE SortAscending(_)
SortAscending(values) ==
  IF Len(values) = 0 THEN <<>>
  ELSE LET m == CHOOSE i \in 1..Len(values) : \A j \in 1..Len(values) : values[i] <= values[j]
           rest == [j \in 1..(Len(values) - 1) |-> IF j < m THEN values[j] ELSE values[j + 1]]
       IN  <<values[m]>> \o SortAscending(rest)

\* Variant of ValuesAfterCall in which the sort works on the array itself.
ValuesSortedInPlace(values) == SortAscending(values)

\* The caller's array after calculatePercentiles(values): [...values] is a
\* copy, and only the copy is sorted.
ValuesAfterCall(values) == values

\* sorted[k] for a 0-based k: undefined outside the array.
At(sorted, k) == IF k >= 0 /\ k < Len(sorted) THEN sorted[k + 1] ELSE Undefined

\* Variant of Percentile with the two weights exchanged.
PercentileSwapped(sorted, pct) ==
  LET index100 == (Len(sorted) - 1) * pct
      lower == index100 \div 100
      upper == -((-index100) \div 100)
      weight100 == index100 - 100 * lower
  IN  IF lower = upper THEN
        (IF IsNumber(At(sorted, lower)) THEN 100 * At(sorted, lower) ELSE Undefined)
      ELSE IF IsNumber(At(sorted, lower)) /\ IsNumber(At(sorted, upper))
      THEN At(sorted, lower) * weight100 + At(sorted, upper) * (100 - weight100)
      ELSE NaN

\* The closure percentile(p) of calculatePercentiles, p given in percent.
\* Metrics are kept in hundredths, so that the interpolation is exact.
Percentile(sorted, pct) ==
  LET index100 == (Len(sorted) - 1) * pct          \* index, in hundredths
      lower == index100 \div 100                    \* Math.floor
      upper == -((-index100) \div 100)              \* Math.ceil
      weight100 == index100 - 100 * lower
  IN  IF lower = upper THEN
        (IF IsNumber(At(sorted, lower)) THEN 100 * At(sorted, lower) ELSE Undefined)
      ELSE IF IsNumber(At(sorted, lower)) /\ IsNumber(At(sorted, upper))
      THEN At(sorted, lower) * (100 - weight100) + At(sorted, upper) * weight100
      ELSE NaN

Scaled(x) == IF IsNumber(x) THEN 100 * x ELSE x

\* values.reduce((a, b) => a + b, 0) / len
Mean(values) ==
  LET RECURSIVE total(_)
      total(k) == IF k = 0 THEN 0 ELSE total(k - 1) + values[k]
  IN  FrDiv(Fraction(total(Len(values)), 1), Fraction(Len(values), 1))

\* values.reduce((sum, val) => sum + Math.pow(val - mean, 2), 0) / len
Variance(values) ==
  LET mean == Mean(values)
      RECURSIVE squares(_)
      squares(k) ==
        IF k = 0 THEN Fraction(0, 1)
        ELSE LET deviation == FrSub(Fraction(values[k], 1), mean)
             IN  FrAdd(squares(k - 1), FrMul(deviation, deviation))
  IN  FrDiv(squares(Len(values)), Fraction(Len(values), 1))

\* The record calculatePercentiles returns: the percentiles in hundredths,
\* mean as a fraction, stdDev as the root of a fraction.
CalculatePercentiles(values) ==
  LET sorted == SortAscending(values)
      len == Len(sorted)
  IN  [p0 |-> Scaled(At(sorted, 0)),
       p25 |-> Percentile(sorted, 25),
       p50 |-> Percentile(sorted, 50),
       p75 |-> Percentile(sorted, 75),
       p90 |-> Percentile(sorted, 90),
       p95 |-> Percentile(sorted, 95),
       p99 |-> Percentile(sorted, 99),
       p100 |-> Scaled(At(sorted, len - 1)),
       mean |-> Mean(values),
       stdDev |-> Sqrt(Variance(values))]

\* ----------------------------------------------- strategy-generator.ts
ChunkSizes == <<1, 2, 3, 5, 7, 10, 14, 21, 30>>

DefaultMaxConcurrency == 30

\* Math.ceil(a / b) for positive b.
CeilDiv(a, b) == -((-a) \div b)

\* Variant of GenerateDefaultStrategies without the cap on concurrency.
GenerateDefaultStrategiesUncapped(daysAhead) ==
  LET fits(size) == size <= daysAhead
      chunkSizes == SelectSeq(ChunkSizes, fits)
  IN  [k \in 1..Len(chunkSizes) |->
         LET totalQueries == CeilDiv(daysAhead, chunkSizes[k])
         IN  [name |-> ToString(chunkSizes[k]) \o "d-" \o ToString(totalQueries) \o "c",
              daysPerQuery |-> chunkSizes[k],
              concurrency |-> totalQueries]]

GenerateDefaultStrategies(daysAhead) ==
  LET fits(size) == size <= daysAhead
      chunkSizes == SelectSeq(ChunkSizes, fits)
  IN  [k \in 1..Len(chunkSizes) |->
         LET totalQueries == CeilDiv(daysAhead, chunkSizes[k])
             optimalConcurrency == Min(totalQueries, DefaultMaxConcurrency)
         IN  [name |-> ToString(chunkSizes[k]) \o "d-" \o ToString(optimalConcurrency) \o "c",
              daysPerQuery |-> chunkSizes[k],
              concurrency |-> optimalConcurrency]]

\* ------------------------- strategy-generator.ts, the fixed-menu variant
ConcurrencyLevels == <<1, 3, 5, 10, 20>>

\* Variant of SkipLevel that keeps every level.
SkipLevelNever(concurrency_, totalQueries) == FALSE

\* Variant of SkipLevel that also skips a level equal to the query count.
SkipLevelAtEqual(concurrency_, totalQueries) == concurrency_ >= totalQueries

\* if (concurrency > totalQueries) continue
SkipLevel(concurrency_, totalQueries) == concurrency_ > totalQueries

\* The strategies the inner loop pushes for one chunk size.
MenuRow(chunkSize, daysAhead) ==
  LET totalQueries == CeilDiv(daysAhead, chunkSize)
      kept(level) == ~SkipLevel(level, totalQueries)
      levels == SelectSeq(ConcurrencyLevels, kept)
  IN  [k \in 1..Len(levels) |->
         [name |-> ToString(chunkSize) \o "d-" \o ToString(levels[k]) \o "c",
          daysPerQuery |-> chunkSize,
          concurrency |-> levels[k]]]

GenerateDefaultStrategiesMenu(daysAhead) ==
  LET fits(size) == size <= daysAhead
      chunkSizes == SelectSeq(ChunkSizes, fits)
      RECURSIVE rows(_)
      rows(k) == IF k = 0 THEN <<>> ELSE rows(k - 1) \o MenuRow(chunkSizes[k], daysAhead)
  IN  rows(Len(chunkSizes))

\* ---------------------------------------------------------- optimizer.ts
\* config.strategies || generateDefaultStrategies(config.daysAhead)
\* An optional value is a sequence of length 0 (absent) or 1.
Strategies ==
  IF config.strategies = <<>> THEN GenerateDefaultStrategies(config.daysAhead)
  ELSE config.strategies[1]

Sum(seq) ==
  LET RECURSIVE S(_)
      S(k) == IF k = 0 THEN 0 ELSE S(k - 1) + seq[k]
  IN  S(Len(seq))

\* The object testStrategy returns.  averageTimePerQuery is kept as the
\* fraction totalTime / (ranges.length * iterations).
StrategyResult(strategy, nRanges, ms, errs) ==
  [strategy |-> [name |-> strategy.name,
                 totalQueries |-> nRanges,
                 daysPerQuery |-> strategy.daysPerQuery,
                 concurrency |-> strategy.concurrency],
   metrics |-> CalculatePercentiles(ms),
   measurements |-> ms,
   totalTime |-> Sum(ms),
   averageTimePerQuery |-> [num |-> Sum(ms), den |-> nRanges * config.iterations],
   errors |-> errs]

\* (a, b) => a.metrics.p50 - b.metrics.p50 is NaN when a median is no number
\* (a median is NaN or a number, never undefined).
ComparatorIsNaN(a, b) == ~IsNumber(a.metrics.p50) \/ ~IsNumber(b.metrics.p50)

\* What Array.prototype.sort sees: a NaN from the comparator counts as +0.
Order(a, b) == IF ComparatorIsNaN(a, b) THEN 0 ELSE a.metrics.p50 - b.metrics.p50

\* The comparator is a consistent one on rs when "compares equal" is
\* transitive; with differences of numbers it fails to be one exactly when a
\* NaN median meets two different numeric medians.
ConsistentComparator(rs) ==
  \A i, j, k \in 1..Len(rs) :
    (Order(rs[i], rs[j]) = 0 /\ Order(rs[j], rs[k]) = 0) => Order(rs[i], rs[k]) = 0

Reorderings(rs) ==
  {[i \in 1..Len(rs) |-> rs[f[i]]] :
     f \in {g \in [1..Len(rs) -> 1..Len(rs)] : \A a, b \in 1..Len(rs) : g[a] = g[b] => a = b}}

\* The stable ascending order of rs under Order.
StableSorted(rs) ==
  LET n == Len(rs)
      before(a, b) == Order(rs[a], rs[b]) < 0 \/ (Order(rs[a], rs[b]) = 0 /\ a < b)
      rank(a) == Cardinality({b \in 1..n : before(b, a)}) + 1
  IN  [pos \in 1..n |-> rs[CHOOSE a \in 1..n : rank(a) = pos]]

\* results.sort(comparator): the stable sorted order when the comparator is
\* consistent, otherwise an order the engine is free to choose.
SortOutcomes(rs) ==
  IF ConsistentComparator(rs) THEN {StableSorted(rs)} ELSE Reorderings(rs)

\* Variant of Recommend that returns an altered copy of the first result.
RecommendCopy(rs) == [rs[1] EXCEPT !.errors = @ + 1]

\* results.find(r => r.errors === 0) || results[0], for a non-empty rs
Recommend(rs) ==
  IF \E i \in 1..Len(rs) : rs[i].errors = 0
  THEN rs[CHOOSE i \in 1..Len(rs) : rs[i].errors = 0 /\ \A j \in 1..(i - 1) : rs[j].errors # 0]
  ELSE rs[1]

\* testStrategy is entered for the next strategy of the list.
TestStrategy ==
  /\ optPc = "strategies"
  /\ strategyIdx < Len(Strategies)
  /\ strategyIdx' = strategyIdx + 1
  /\ ranges' = GenerateDateRanges(Strategies[strategyIdx + 1].daysPerQuery, config.daysAhead)
  /\ measurements' = <<>>
  /\ totalErrors' = 0
  /\ iter' = 0
  /\ optPc' = "trials"
  /\ UNCHANGED <<concurrency, exPc, nextIdx, inFlight, awaited, status, failed, results,
                 errors, startCount, duration, errorLogged, netVars, config,
                 chunkFailedIn, optResults, recommendation>>
  /\ UNCHANGED sideVars

\* Variant of BatchAwaited for a call that is not awaited.
BatchNotAwaited == exPc \in {"race", "all", "done"}

\* await executeQueriesWithConcurrency(...) resumes when the call has returned.
BatchAwaited == exPc = "done"

\* One iteration of the trial loop calls the executor.
StartTrial ==
  /\ optPc = "trials"
  /\ iter < config.iterations
  /\ Begin(ranges, Strategies[strategyIdx].concurrency, batchNo + 1)
  /\ optPc' = "batch"
  /\ UNCHANGED <<config, strategyIdx, iter, measurements, totalErrors, chunkFailedIn,
                 optResults, recommendation>>
  /\ UNCHANGED sideVars

\* Variant of TrialReturn that treats a batch with failed chunk requests as
\* a failed trial.
TrialReturnCountsChunkErrors ==
  /\ optPc = "batch"
  /\ BatchAwaited
  /\ IF Len(errors) > 0
     THEN totalErrors' = totalErrors + 1 /\ UNCHANGED measurements
     ELSE measurements' = Append(measurements, duration) /\ UNCHANGED totalErrors
  /\ iter' = iter + 1
  /\ chunkFailedIn' = IF \E i \in Ids : failed[i]
                      THEN chunkFailedIn \cup {Strategies[strategyIdx].name}
                      ELSE chunkFailedIn
  /\ exPc' = "idle"
  /\ optPc' = "trials"
  /\ UNCHANGED <<ranges, concurrency, nextIdx, inFlight, awaited, status, failed, results,
                 errors, startCount, duration, errorLogged, netVars, config, strategyIdx,
                 optResults, recommendation>>
  /\ UNCHANGED sideVars

\* The call returned: measurements.push(duration), and on to the next iteration.
TrialReturn ==
  /\ optPc = "batch"
  /\ BatchAwaited
  /\ measurements' = Append(measurements, duration)
  /\ iter' = iter + 1
  /\ chunkFailedIn' = IF \E i \in Ids : failed[i]
                      THEN chunkFailedIn \cup {Strategies[strategyIdx].name}
                      ELSE chunkFailedIn
  /\ exPc' = "idle"
  /\ optPc' = "trials"
  /\ UNCHANGED <<ranges, concurrency, nextIdx, inFlight, awaited, status, failed, results,
                 errors, startCount, duration, errorLogged, netVars, config, strategyIdx,
                 totalErrors, optResults, recommendation>>
  /\ UNCHANGED sideVars

\* Variant of TrialThrows that gives up the remaining iterations.
TrialThrowsAborts ==
  /\ optPc = "trials"
  /\ iter < config.iterations
  /\ totalErrors' = totalErrors + 1
  /\ iter' = config.iterations
  /\ UNCHANGED <<exVars, netVars, config, optPc, strategyIdx, measurements,
                 chunkFailedIn, optResults, recommendation>>
  /\ UNCHANGED sideVars

\* The call rejected (the executor of optimizer.test.ts is made to): the catch
\* block counts it, and the loop goes on.
TrialThrows ==
  /\ optPc = "trials"
  /\ iter < config.iterations
  /\ totalErrors' = totalErrors + 1
  /\ iter' = iter + 1
  /\ UNCHANGED <<exVars, netVars, config, optPc, strategyIdx, measurements,
                 chunkFailedIn, optResults, recommendation>>
  /\ UNCHANGED sideVars

\* The trial loop is over: testStrategy returns and optimize() pushes the result.
FinishStrategy ==
  /\ optPc = "trials"
  /\ ~(iter < config.iterations)
  /\ measurements' = ValuesAfterCall(measurements)
  /\ optResults' = Append(optResults,
                          StrategyResult(Strategies[strategyIdx], Len(ranges),
                                         ValuesAfterCall(measurements), totalErrors))
  /\ optPc' = "strategies"
  /\ UNCHANGED <<exVars, netVars, config, strategyIdx, iter, totalErrors,
                 chunkFailedIn, recommendation>>
  /\ UNCHANGED sideVars

\* After the last strategy: sort, print the table, pick the recommendation.
\* Printing the recommendation of an empty list throws.
Rank ==
  /\ optPc = "strategies"
  /\ ~(strategyIdx < Len(Strategies))
  /\ \E sorted \in SortOutcomes(optResults) :
       /\ optResults' = sorted
       /\ recommendation' = IF Len(sorted) = 0 THEN <<>> ELSE <<Recommend(sorted)>>
       /\ optPc' = IF Len(sorted) = 0 THEN "rejected" ELSE "ranked"
  /\ UNCHANGED <<exVars, netVars, config, strategyIdx, iter, measurements, totalErrors,
                 chunkFailedIn>>
  /\ UNCHANGED sideVars

\* A point in time: <<day, time of the day>>.
Instants == {<<day, time>> : day \in 1..2, time \in 1..2}

\* new Date().toISOString(): the date, the letter T, the time.
ToISOString(instant) ==
  <<[part |-> "date", value |-> instant[1]],
    [part |-> "T", value |-> 0],
    [part |-> "time", value |-> instant[2]]>>

\* text.split('T')[0] of an ISO date-time text: what stands before the T.
BeforeT(text) ==
  LET t == CHOOSE k \in 1..Len(text) :
             text[k].part = "T" /\ \A j \in 1..(k - 1) : text[j].part # "T"
  IN  SubSeq(text, 1, t - 1)

\* `./optimization-results-${new Date().toISOString().split('T')[0]}.json`
ResultsPath(instant) ==
  [dir |-> ".", prefix |-> "optimization-results-", stamp |-> BeforeT(ToISOString(instant))]

\* The object handed to JSON.stringify.
Snapshot(instant) ==
  [timestamp |-> ToISOString(instant),
   config |-> config,
   results |-> optResults,
   recommendation |-> recommendation[1].strategy]

\* The snapshot is written and optimize() returns.
SaveAndReturn ==
  /\ optPc = "ranked"
  /\ \E now \in Instants :
       fsCalls' = Append(fsCalls, [op |-> "writeFile", path |-> ResultsPath(now),
                                   data |-> Snapshot(now)])
  /\ optPc' = "returned"
  /\ UNCHANGED <<exVars, netVars, config, strategyIdx, iter, measurements, totalErrors,
                 chunkFailedIn, optResults, recommendation>>
  /\ UNCHANGED <<utilVars, cliVars, clientVars>>

OptimizerStep ==
  \/ TestStrategy
  \/ StartTrial
  \/ TrialReturn
  \/ TrialThrows
  \/ FinishStrategy
  \/ Rank
  \/ SaveAndReturn

\* Strategies a caller passes in config.strategies.
CustomStrategies ==
  <<[name |-> "daily-burst", daysPerQuery |-> 1, concurrency |-> 2],
    [name |-> "two-day-single", daysPerQuery |-> 2, concurrency |-> 1],
    [name |-> "daily-single", daysPerQuery |-> 1, concurrency |-> 1]>>

StrategyLists ==
  {<<>>} \cup {<<SubSeq(CustomStrategies, 1, n)>> : n \in 0..Len(CustomStrategies)}

ResolvedLength(n, ss) == IF ss = <<>> THEN Len(GenerateDefaultStrategies(n)) ELSE Len(ss[1])

Configs ==
  {c \in [daysAhead : 0..MaxDaysAhead, iterations : 0..MaxIterations,
          strategies : StrategyLists] :
     ResolvedLength(c.daysAhead, c.strategies) * c.iterations <= MaxTrials}

OptInit ==
  /\ config \in Configs
  /\ optPc = "strategies"
  /\ strategyIdx = 0
  /\ iter = 0
  /\ measurements = <<>>
  /\ totalErrors = 0
  /\ chunkFailedIn = {}
  /\ optResults = <<>>
  /\ recommendation = <<>>
  /\ FreshCall(<<>>, 0)
  /\ batchNo = 0
  /\ net = {}
  /\ UtilOff
  /\ CliOff
  /\ FsOff
  /\ ClientOff

OptNext == OptimizerStep \/ (optPc = "batch" /\ ExecutorStep)

OptSpec == OptInit /\ [][OptNext]_vars

\* ----------------------------------------- the executor called directly
OptimizerOff ==
  /\ config = [daysAhead |-> 0, iterations |-> 0, strategies |-> <<>>]
  /\ optPc = "off"
  /\ strategyIdx = 0
  /\ iter = 0
  /\ measurements = <<>>
  /\ totalErrors = 0
  /\ chunkFailedIn = {}
  /\ optResults = <<>>
  /\ recommendation = <<>>

Init ==
  /\ \E k \in 0..MaxRanges, c \in (-1)..MaxConcurrency : FreshCall(GenerateDateRanges(1, k), c)
  /\ batchNo = 1
  /\ net = {}
  /\ OptimizerOff
  /\ UtilOff
  /\ CliOff
  /\ FsOff
  /\ ClientOff

Next == Call \/ ExecutorStep

Spec == Init /\ [][Next]_vars

\* The event loop runs every continuation that is ready, and every request
\* on the wire is answered.
FairSpec == Spec /\ WF_vars(Call) /\ WF_vars(ExecutorStep)

\* The event loop runs every continuation that is ready; a request on the
\* wire may stay unanswered for ever.
Continuations ==
  \/ Call
  \/ \E i \in Ids : Record(i)
  \/ \E i \in Ids : ThenCallback(i)
  \/ RaceResume
  \/ \E d \in Durations : AllResume(d)

SlidingSpec == Spec /\ WF_vars(Continuations)

\* ------------------------------ utility functions called on their own
\* generateDateRanges(daysPerChunk, daysAhead) with positive arguments.
GenerateDateRangesArgs == {<<c, d>> : c \in 1..MaxDays, d \in 1..MaxDays}

CallGenerateDateRanges ==
  /\ utilFn = "generateDateRanges"
  /\ utilRet = <<>>
  /\ utilRet' = <<GenerateDateRanges(utilArgs[1], utilArgs[2])>>
  /\ UNCHANGED <<utilFn, utilArgs, exVars, netVars, optVars, cliVars, restVars>>

\* calculatePercentiles(values): every sample list of up to MaxSamples
\* durations, and the two ten-sample lists of stats-utils.test.ts.
RECURSIVE SampleLists(_)
SampleLists(n) ==
  IF n = 0 THEN {<<>>}
  ELSE SampleLists(n - 1)
         \cup {Append(v, d) : v \in {w \in SampleLists(n - 1) : Len(w) = n - 1},
                              d \in 1..MaxDuration}

CalculatePercentilesArgs ==
  {<<v>> : v \in SampleLists(MaxSamples)
                   \cup {<<1, 2, 3, 4, 5, 6, 7, 8, 9, 10>>, <<10, 1, 5, 8, 3, 7, 2, 9, 4, 6>>}}

CallCalculatePercentiles ==
  /\ utilFn = "calculatePercentiles"
  /\ utilRet = <<>>
  /\ utilRet' = <<CalculatePercentiles(utilArgs[1])>>
  /\ utilArgs' = <<ValuesAfterCall(utilArgs[1])>>
  /\ UNCHANGED <<utilFn, exVars, netVars, optVars, cliVars, restVars>>

\* generateDefaultStrategies(daysAhead) with a positive argument.
GenerateDefaultStrategiesArgs == {<<d>> : d \in 1..MaxDays}

\* The capped generator.
CallGenerateDefaultStrategies ==
  /\ utilFn = "generateDefaultStrategies"
  /\ utilRet = <<>>
  /\ utilRet' = <<GenerateDefaultStrategies(utilArgs[1])>>
  /\ UNCHANGED <<utilFn, utilArgs, exVars, netVars, optVars, cliVars, restVars>>

\* The fixed-menu generator.
CallGenerateDefaultStrategiesMenu ==
  /\ utilFn = "generateDefaultStrategiesMenu"
  /\ utilRet = <<>>
  /\ utilRet' = <<GenerateDefaultStrategiesMenu(utilArgs[1])>>
  /\ UNCHANGED <<utilFn, utilArgs, exVars, netVars, optVars, cliVars, restVars>>

UtilInit ==
  /\ \/ utilFn = "generateDateRanges" /\ utilArgs \in GenerateDateRangesArgs
     \/ /\ utilFn \in {"generateDefaultStrategies", "generateDefaultStrategiesMenu"}
        /\ utilArgs \in GenerateDefaultStrategiesArgs
     \/ utilFn = "calculatePercentiles" /\ utilArgs \in CalculatePercentilesArgs
  /\ utilRet = <<>>
  /\ FreshCall(<<>>, 0)
  /\ batchNo = 0
  /\ net = {}
  /\ OptimizerOff
  /\ CliOff
  /\ FsOff
  /\ ClientOff

UtilNext ==
  \/ CallGenerateDateRanges
  \/ CallGenerateDefaultStrategies
  \/ CallGenerateDefaultStrategiesMenu
  \/ CallCalculatePercentiles

UtilSpec == UtilInit /\ [][UtilNext]_vars

\* ------------------------------- scripts/optimize-availability-query.ts
\* An option value is a text: a sequence of characters, the digits 0..9 being
\* themselves and 10 any other character.
RECURSIVE DecimalText(_)
DecimalText(n) == IF n < 10 THEN <<n>> ELSE Append(DecimalText(n \div 10), n % 10)

\* parseInt(text): the value of the leading digits, NaN when there is none.
ParseInt(text) ==
  LET isDigit(k) == k \in 1..Len(text) /\ text[k] \in 0..9
      n == Cardinality({k \in 1..Len(text) : \A j \in 1..k : isDigit(j)})
      RECURSIVE value(_)
      value(k) == IF k = 0 THEN 0 ELSE 10 * value(k - 1) + text[k]
  IN  IF n = 0 THEN NaN ELSE value(n)

\* The strategies of the quick mode.
QuickStrategies ==
  <<[name |-> "single-day-high", daysPerQuery |-> 1, concurrency |-> 15],
    [name |-> "three-day-high", daysPerQuery |-> 3, concurrency |-> 10],
    [name |-> "weekly-medium", daysPerQuery |-> 7, concurrency |-> 5],
    [name |-> "biweekly-low", daysPerQuery |-> 14, concurrency |-> 3],
    [name |-> "monthly-single", daysPerQuery |-> 30, concurrency |-> 1]>>

\* The command lines taken: with or without an endpoint, --days and
\* --iterations as decimal numbers, with or without --quick.  A full run has
\* at most MaxTrials trials; a quick run is taken with --iterations 0.
CliOptions ==
  {o \in [endpoint : {"", "https://api.example/graphql"},
          days : {DecimalText(n) : n \in 0..MaxDaysAhead},
          iterations : {DecimalText(n) : n \in 0..MaxIterations},
          quick : BOOLEAN] :
     IF o.quick THEN ParseInt(o.iterations) = 0
     ELSE Len(GenerateDefaultStrategies(ParseInt(o.days))) * ParseInt(o.iterations) <= MaxTrials}

\* main() without an endpoint: process.exit(1).
MainExit ==
  /\ cliPc = "main"
  /\ options.endpoint = ""
  /\ cliPc' = "exit1"
  /\ UNCHANGED <<options, exVars, netVars, optVars, utilVars, restVars>>

\* Variant of MainStart that does not look at the endpoint.
MainStartUnvalidated ==
  /\ cliPc = "main"
  /\ config' = [daysAhead |-> ParseInt(options.days),
                iterations |-> ParseInt(options.iterations),
                strategies |-> IF options.quick THEN <<QuickStrategies>> ELSE <<>>]
  /\ optPc' = "strategies"
  /\ cliPc' = "optimizing"
  /\ UNCHANGED <<options, exVars, netVars, strategyIdx, iter, measurements, totalErrors,
                 chunkFailedIn, optResults, recommendation, utilVars, restVars>>

\* main() builds the configuration and calls optimizer.optimize().
MainStart ==
  /\ cliPc = "main"
  /\ options.endpoint # ""
  /\ config' = [daysAhead |-> ParseInt(options.days),
                iterations |-> ParseInt(options.iterations),
                strategies |-> IF options.quick THEN <<QuickStrategies>> ELSE <<>>]
  /\ optPc' = "strategies"
  /\ cliPc' = "optimizing"
  /\ UNCHANGED <<options, exVars, netVars, strategyIdx, iter, measurements, totalErrors,
                 chunkFailedIn, optResults, recommendation, utilVars, restVars>>

\* optimize() resolved: main() prints the top strategies and the suggestion.
MainReport ==
  /\ cliPc = "optimizing"
  /\ optPc = "returned"
  /\ cliPc' = "reported"
  /\ UNCHANGED <<options, exVars, netVars, optVars, utilVars, restVars>>

\* optimize() rejected: the catch block prints and calls process.exit(1).
MainFail ==
  /\ cliPc = "optimizing"
  /\ optPc = "rejected"
  /\ cliPc' = "exit1"
  /\ UNCHANGED <<options, exVars, netVars, optVars, utilVars, restVars>>

CliInit ==
  /\ options \in CliOptions
  /\ cliPc = "main"
  /\ OptimizerOff
  /\ FreshCall(<<>>, 0)
  /\ batchNo = 0
  /\ net = {}
  /\ UtilOff
  /\ FsOff
  /\ ClientOff

CliNext ==
  \/ MainExit
  \/ MainStart
  \/ MainReport
  \/ MainFail
  \/ OptimizerStep
  \/ (optPc = "batch" /\ ExecutorStep)

CliSpec == CliInit /\ [][CliNext]_vars

\* ------------------------------------------- availability-client/index.ts
\* A date is its offset in days from startDate, the day of the call.
\* Variant of ClientDateRangeLoop without the Math.min clamp.
RECURSIVE ClientDateRangeLoopUnclamped(_, _, _, _)
ClientDateRangeLoopUnclamped(dayOffset, daysAhead, daysPerQuery, acc) ==
  IF ~(dayOffset < daysAhead) THEN acc
  ELSE ClientDateRangeLoopUnclamped(dayOffset + daysPerQuery, daysAhead, daysPerQuery,
         Append(acc, [startDate |-> dayOffset, endDate |-> dayOffset + daysPerQuery - 1]))

\* The for loop of generateDateRanges.
RECURSIVE ClientDateRangeLoop(_, _, _, _)
ClientDateRangeLoop(dayOffset, daysAhead, daysPerQuery, acc) ==
  IF ~(dayOffset < daysAhead) THEN acc
  ELSE LET endOffset == Min(dayOffset + daysPerQuery - 1, daysAhead - 1)
       IN  ClientDateRangeLoop(dayOffset + daysPerQuery, daysAhead, daysPerQuery,
             Append(acc, [startDate |-> dayOffset, endDate |-> endOffset]))

ClientGenerateDateRanges(daysPerQuery, daysAhead) ==
  ClientDateRangeLoop(0, daysAhead, daysPerQuery, <<>>)

\* What the endpoint can answer: fetch rejects, a non-OK status with a JSON
\* body, a body that is no JSON, a body with errors, or data.
ClientResponses == {"network", "http", "unparsable", "graphql", "data"}

\* Variant of ExecuteQuery that rethrows what it caught.
ClientExecuteQueryRethrows(resp) ==
  CASE resp = "network"    -> [response |-> resp, data |-> FALSE, errors |-> FALSE, thrown |-> TRUE]
    [] resp = "unparsable" -> [response |-> resp, data |-> FALSE, errors |-> FALSE, thrown |-> TRUE]
    [] resp = "http"       -> [response |-> resp, data |-> FALSE, errors |-> TRUE, thrown |-> FALSE]
    [] resp = "graphql"    -> [response |-> resp, data |-> FALSE, errors |-> TRUE, thrown |-> FALSE]
    [] resp = "data"       -> [response |-> resp, data |-> TRUE, errors |-> FALSE, thrown |-> FALSE]

\* executeQuery: the AvailabilityResult it returns for an answer.  data: the
\* result carries data; errors: it carries a non-empty errors list; thrown:
\* the promise of executeQuery is rejected instead.
ClientExecuteQuery(resp) ==
  CASE resp = "network"    -> [response |-> resp, data |-> FALSE, errors |-> TRUE, thrown |-> FALSE]
    [] resp = "unparsable" -> [response |-> resp, data |-> FALSE, errors |-> TRUE, thrown |-> FALSE]
    [] resp = "http"       -> [response |-> resp, data |-> FALSE, errors |-> TRUE, thrown |-> FALSE]
    [] resp = "graphql"    -> [response |-> resp, data |-> FALSE, errors |-> TRUE, thrown |-> FALSE]
    [] resp = "data"       -> [response |-> resp, data |-> TRUE, errors |-> FALSE, thrown |-> FALSE]

\* Variant of Batch that takes one range more than maxConcurrency.
BatchOneMore(i, rs) ==
  {k \in 1..Len(rs) : i < k /\ k <= i + clientConfig.maxConcurrency + 1}

\* rs.slice(i, i + maxConcurrency), as 1-based positions.
Batch(i, rs) ==
  {k \in 1..Len(rs) : i < k /\ k <= i + clientConfig.maxConcurrency}

\* Requests issued and not answered yet.
ClientInFlight == {k \in 1..Len(dateRanges) : clientStartCount[k] > 0 /\ queryResult[k] = <<>>}

\* The loop of executeQueriesConcurrently from i on, with rs as dateRanges:
\* the next batch is issued, or the call returns.
RunBatchLoop(i, rs) ==
  LET batch == Batch(i, rs)
  IN  /\ batchStart' = i
      /\ IF i < Len(rs)
         THEN /\ clientStartCount' = [k \in 1..Len(rs) |->
                   (IF k \in DOMAIN clientStartCount THEN clientStartCount[k] ELSE 0)
                   + (IF k \in batch THEN 1 ELSE 0)]
              /\ clientPc' = "batch"
         ELSE /\ clientStartCount' = [k \in 1..Len(rs) |->
                   IF k \in DOMAIN clientStartCount THEN clientStartCount[k] ELSE 0]
              /\ clientPc' = "resolved"

\* queryAvailability up to its first await: the ranges, then the first batch.
QueryAvailability ==
  /\ clientPc = "idle"
  /\ LET rs == ClientGenerateDateRanges(clientConfig.daysPerQuery, clientDaysAhead)
     IN  /\ dateRanges' = rs
         /\ queryResult' = [k \in 1..Len(rs) |-> <<>>]
         /\ RunBatchLoop(0, rs)
  /\ clientResults' = <<>>
  /\ UNCHANGED <<clientConfig, clientDaysAhead, delays>>
  /\ UNCHANGED <<exVars, netVars, optVars, utilVars, cliVars, fsVars>>

\* A request of the batch is answered and its executeQuery settles.
ClientSettle(k, resp) ==
  /\ clientPc = "batch"
  /\ k \in ClientInFlight
  /\ queryResult' = [queryResult EXCEPT ![k] = <<ClientExecuteQuery(resp)>>]
  /\ UNCHANGED <<clientConfig, clientDaysAhead, clientPc, dateRanges, batchStart,
                 clientResults, clientStartCount, delays>>
  /\ UNCHANGED <<exVars, netVars, optVars, utilVars, cliVars, fsVars>>

\* Variant of NextBatchStart that moves the window by one range.
NextBatchStartByOne(i) == i + 1

\* i += maxConcurrency
NextBatchStart(i) == i + clientConfig.maxConcurrency

\* Variant of DelayDue that also waits after the last batch.
DelayDueAlways(i) == clientConfig.requestDelay > 0

\* requestDelay > 0 && i + maxConcurrency < dateRanges.length
DelayDue(i) ==
  /\ clientConfig.requestDelay > 0
  /\ i + clientConfig.maxConcurrency < Len(dateRanges)

\* The batch's results in range order.
RECURSIVE BatchResults(_, _)
BatchResults(k, last) ==
  IF k > last THEN <<>> ELSE <<[range |-> k] @@ queryResult[k][1]>> \o BatchResults(k + 1, last)

\* await Promise.all(batchPromises) resumes: the results are pushed; then the
\* delay, the next batch or the return.  A rejected executeQuery rejects the
\* call.
BatchResume ==
  /\ clientPc = "batch"
  /\ IF \E k \in Batch(batchStart, dateRanges) : queryResult[k] # <<>> /\ queryResult[k][1].thrown
     THEN /\ clientPc' = "rejected"
          /\ UNCHANGED <<clientResults, batchStart, clientStartCount, delays>>
     ELSE /\ \A k \in Batch(batchStart, dateRanges) : queryResult[k] # <<>>
          /\ clientResults' = clientResults \o
               BatchResults(batchStart + 1,
                            batchStart + Cardinality(Batch(batchStart, dateRanges)))
          /\ IF DelayDue(batchStart)
             THEN /\ clientPc' = "delay"
                  /\ delays' = delays + 1
                  /\ UNCHANGED <<batchStart, clientStartCount>>
             ELSE /\ RunBatchLoop(NextBatchStart(batchStart), dateRanges)
                  /\ UNCHANGED delays
  /\ UNCHANGED <<clientConfig, clientDaysAhead, dateRanges, queryResult>>
  /\ UNCHANGED <<exVars, netVars, optVars, utilVars, cliVars, fsVars>>

\* The timer of this.delay fires: i += maxConcurrency and the loop goes on.
DelayElapsed ==
  /\ clientPc = "delay"
  /\ RunBatchLoop(NextBatchStart(batchStart), dateRanges)
  /\ UNCHANGED <<clientConfig, clientDaysAhead, dateRanges, queryResult, clientResults, delays>>
  /\ UNCHANGED <<exVars, netVars, optVars, utilVars, cliVars, fsVars>>

\* Number of ranges of the largest call taken.
MaxClientRanges == 5

\* The calls taken: a few days at a time, and the README's 14 and 30 days at
\* the default 7 days per query; requestDelay 0 (the default) or 100 ms.
ClientCalls ==
  {c \in [daysPerQuery : (1..MaxDaysAhead) \cup {7},
          maxConcurrency : 1..MaxConcurrency,
          requestDelay : {0, 100},
          daysAhead : (0..MaxDaysAhead) \cup {14, 30}] :
     CeilDiv(c.daysAhead, c.daysPerQuery) <= MaxClientRanges}

ClientInit ==
  /\ \E c \in ClientCalls :
       /\ clientConfig = [daysPerQuery |-> c.daysPerQuery,
                          maxConcurrency |-> c.maxConcurrency,
                          requestDelay |-> c.requestDelay]
       /\ clientDaysAhead = c.daysAhead
  /\ clientPc = "idle"
  /\ dateRanges = <<>>
  /\ batchStart = 0
  /\ queryResult = <<>>
  /\ clientResults = <<>>
  /\ clientStartCount = <<>>
  /\ delays = 0
  /\ FreshCall(<<>>, 0)
  /\ batchNo = 0
  /\ net = {}
  /\ OptimizerOff
  /\ UtilOff
  /\ CliOff
  /\ FsOff

ClientNext ==
  \/ QueryAvailability
  \/ \E k \in 1..Len(dateRanges), resp \in ClientResponses : ClientSettle(k, resp)
  \/ BatchResume
  \/ DelayElapsed

ClientSpec == ClientInit /\ [][ClientNext]_vars


\* ------------------------------------------------------------- claims
Outstanding == {i \in Ids : status[i] = "pending"}

Settled(i) == status[i] \in {"ok", "err", "recorded", "removed"}

Count(seq, x) == Cardinality({j \in 1..Len(seq) : seq[j] = x})

\* C1: with a limit C >= 1, the number of requests started and not yet
\* settled never exceeds min(C, K), whatever the order of completions.
C1_OutstandingBounded ==
  concurrency >= 1 => Cardinality(Outstanding) <= Min(concurrency, K)

\* C1 witness: the window is full again after it has slid at least once.
C1_Witness ==
  /\ concurrency >= 1
  /\ K > concurrency
  /\ Cardinality(Outstanding) = concurrency
  /\ \E i \in Ids : status[i] = "removed"

\* C2: within one call every request is issued exactly once: none is issued
\* twice (a failed one is not retried), every element the loop has passed
\* was issued, and when the call returns all K were.
C2_StartedExactlyOnce ==
  /\ \A i \in Ids : startCount[i] <= 1
  /\ \A i \in Ids : i < nextIdx => startCount[i] = 1
  /\ exPc = "done" => \A i \in Ids : startCount[i] = 1

\* C2 witness: a call has returned in which a request failed and another
\* succeeded.
C2_Witness ==
  /\ exPc = "done"
  /\ \E i, j \in Ids : failed[i] /\ ~failed[j]

\* C3: the call resolves only after each of the K requests has settled, and
\* with a limit >= 1, when every request on the wire is answered, it does
\* resolve.
C3_ResolvesWhenAllSettled ==
  /\ [](exPc = "done" => \A i \in Ids : Settled(i))
  /\ (concurrency >= 1 => <>(exPc = "done"))

\* C3 witness: a call over several ranges, more than the limit, has resolved.
C3_Witness ==
  /\ exPc = "done"
  /\ concurrency >= 1
  /\ K > concurrency
  /\ \A i \in Ids : Settled(i)

\* C4: a failing request is caught and counted once; the call never
\* rejects, and when it returns every request, queued before or after the
\* failure, was issued and ran to its own outcome.
C4_FailureIsContained ==
  /\ exPc # "rejected"
  /\ \A i \in Ids : (failed[i] /\ status[i] \in {"recorded", "removed"})
                        => (Count(errors, i) = 1 /\ Count(results, i) = 0)
  /\ exPc = "done" =>
       /\ \A i \in Ids : startCount[i] = 1 /\ status[i] = "removed"
       /\ \A i \in Ids : Count(results, i) = (IF failed[i] THEN 0 ELSE 1)
       /\ Len(results) + Len(errors) = K

\* C4 witness: with limit 1 the first request failed, and the requests
\* queued behind it were issued and succeeded.
C4_Witness ==
  /\ exPc = "done"
  /\ concurrency = 1
  /\ K >= 2
  /\ failed[1]
  /\ \A i \in 2..K : ~failed[i] /\ Count(results, i) = 1

\* C5: while the loop waits with a full window, once any one request of the
\* window has settled the next queued request gets issued, even if the
\* other requests of the window never settle.
C5_SlidingWindow ==
  \A n \in 1..MaxRanges :
    (exPc = "race" /\ nextIdx = n /\ \E p \in awaited : Settled(p))
      ~> (n \in Ids /\ startCount[n] = 1)

\* C5 witness: a queued request was issued while an older request of the
\* window it waited on is still on the wire.
C5_Witness ==
  \E i, j \in Ids :
    /\ i < j
    /\ j > concurrency
    /\ concurrency >= 2
    /\ status[i] = "pending"
    /\ status[j] = "pending"

\* ---------------------------------------------- claims on optimize()
Ranked == optPc \in {"ranked", "returned"}

ResultIdx == 1..Len(optResults)

\* a <= b as JavaScript evaluates it: false when either side is no number.
LessEq(a, b) == IsNumber(a) /\ IsNumber(b) /\ a <= b

\* C6: at most one batch is active: every request on the wire belongs to
\* the current call of the executor, and between two calls (before a trial
\* starts, between strategies, while ranking) nothing is on the wire.
C6_OneBatchAtATime ==
  /\ \A r \in net : r[1] = batchNo
  /\ optPc # "batch" => net = {}

\* C6 witness: requests of a later trial are on the wire, in the second
\* strategy or in the second trial of a strategy.
C6_Witness ==
  /\ optPc = "batch"
  /\ net # {}
  /\ batchNo >= 2
  /\ strategyIdx = 2

\* C7: a trial whose batch call throws adds one to the error counter and
\* no measurement, and the loop goes on: measurements.length + errors is the
\* number of trials done, and config.iterations in every strategy's result.
C7_ThrownTrialIsCounted ==
  /\ optPc \in {"trials", "batch"} => Len(measurements) + totalErrors = iter
  /\ \A k \in ResultIdx :
       Len(optResults[k].measurements) + optResults[k].errors = config.iterations

\* C7 witness: the first trial threw and the second trial is running.
C7_Witness ==
  /\ optPc = "batch"
  /\ iter = 1
  /\ totalErrors = 1
  /\ net # {}

\* C8: whenever a batch call returns, whatever chunk requests failed in it,
\* its duration is pushed as a measurement and the error counter is left
\* alone.
C8_ChunkFailuresDoNotFailTrial ==
  [][(optPc = "batch" /\ optPc' # "batch")
       => (measurements' = Append(measurements, duration) /\ totalErrors' = totalErrors)]_vars

\* C8 witness: a trial in which every chunk request failed has been
\* recorded as a measurement, with no error counted.
C8_Witness ==
  /\ optPc = "trials"
  /\ iter >= 1
  /\ Len(failed) >= 2
  /\ \A i \in DOMAIN failed : failed[i]
  /\ exPc = "idle"
  /\ Len(measurements) = iter
  /\ totalErrors = 0

\* C9: a strategy that had a chunk request fail in its trials is reported
\* with a non-zero error count and is not the recommendation while a
\* strategy without any failed request exists.
C9_FailedRequestsAreReported ==
  Ranked =>
    /\ \A k \in ResultIdx :
         optResults[k].strategy.name \in chunkFailedIn => optResults[k].errors > 0
    /\ (\E k \in ResultIdx : optResults[k].strategy.name \notin chunkFailedIn)
         => recommendation[1].strategy.name \notin chunkFailedIn

\* C10: the results list holds exactly one result per strategy of the
\* evaluated catalog and is in ascending order of median: for all i < j,
\* results[i].metrics.p50 <= results[j].metrics.p50.
C10_OnePerStrategySortedByMedian ==
  Ranked =>
    /\ Len(optResults) = Len(Strategies)
    /\ \A s \in 1..Len(Strategies) :
         Cardinality({k \in ResultIdx : optResults[k].strategy.name = Strategies[s].name}) = 1
    /\ \A i, j \in ResultIdx :
         i < j => LessEq(optResults[i].metrics.p50, optResults[j].metrics.p50)

\* The recommendation is not beaten within the results picked by among: every
\* one of them that has a median has one at least as high as the
\* recommendation's.
LowestMedianAmong(among(_)) ==
  \A k \in ResultIdx :
    (among(optResults[k]) /\ IsNumber(optResults[k].metrics.p50))
      => LessEq(recommendation[1].metrics.p50, optResults[k].metrics.p50)

HasNoErrors(r) == r.errors = 0

AnyResult(r) == TRUE

\* C11: when some evaluated strategy has errors = 0, the recommendation has
\* errors = 0 and its median is the lowest among the strategies with errors = 0,
\* whatever the medians of the strategies with errors are.
C11_RecommendsFastestErrorFree ==
  (Ranked /\ \E k \in ResultIdx : optResults[k].errors = 0) =>
    /\ recommendation[1].errors = 0
    /\ LowestMedianAmong(HasNoErrors)

\* C12: when every evaluated strategy has an error, the recommendation is the
\* strategy with the lowest median of all, also when some strategy lost every
\* trial and has no measurement.
C12_AllFailedRecommendsFastest ==
  (Ranked /\ \A k \in ResultIdx : optResults[k].errors > 0) =>
    LowestMedianAmong(AnyResult)

\* --------------------------------------- claims on generateDateRanges
DateRangesReturned == utilFn = "generateDateRanges" /\ utilRet # <<>>

\* The inclusive span of a range, in calendar days.
SpanDays(range) == range.end - range.start + 1

\* C13: for positive chunkSize and totalDays, generateDateRanges returns
\* exactly ceil(totalDays / chunkSize) ranges, and exactly one when
\* chunkSize >= totalDays.
C13_RangeCount ==
  DateRangesReturned =>
    /\ Len(utilRet[1]) = CeilDiv(utilArgs[2], utilArgs[1])
    /\ utilArgs[1] >= utilArgs[2] => Len(utilRet[1]) = 1

\* C13 witness: 30 days in chunks of 7 came back as 5 ranges.
C13_Witness ==
  /\ DateRangesReturned
  /\ utilArgs = <<7, 30>>
  /\ Len(utilRet[1]) = 5

\* C14: the ranges of one span are ordered, non-overlapping and contiguous:
\* every range has start <= end, and each range starts exactly one day after
\* the end of the range before it.
C14_Contiguous ==
  DateRangesReturned =>
    /\ \A i \in 1..Len(utilRet[1]) : utilRet[1][i].start <= utilRet[1][i].end
    /\ \A i \in 1..(Len(utilRet[1]) - 1) :
         utilRet[1][i + 1].start = utilRet[1][i].end + 1

\* C14 witness: 6 days in chunks of 2 came back as three ranges, each
\* following the one before.
C14_Witness ==
  /\ DateRangesReturned
  /\ utilArgs = <<2, 6>>
  /\ Len(utilRet[1]) = 3
  /\ utilRet[1][2].start = utilRet[1][1].end + 1
  /\ utilRet[1][3].start = utilRet[1][2].end + 1

\* C15: for positive chunkSize and totalDays the ranges cover exactly the
\* totalDays days [today, today + totalDays): the first starts today, the last
\* ends on day offset totalDays - 1, and the inclusive spans sum to totalDays.
C15_CoversExactlyTheSpan ==
  DateRangesReturned =>
    /\ utilRet[1][1].start = 0
    /\ utilRet[1][Len(utilRet[1])].end = utilArgs[2] - 1
    /\ Sum([i \in 1..Len(utilRet[1]) |-> SpanDays(utilRet[1][i])]) = utilArgs[2]

\* C16: every range but the last spans exactly chunkSize days, and when
\* chunkSize divides totalDays the last one does too.
C16_FullChunks ==
  DateRangesReturned =>
    /\ \A i \in 1..(Len(utilRet[1]) - 1) : SpanDays(utilRet[1][i]) = utilArgs[1]
    /\ utilArgs[2] % utilArgs[1] = 0
         => \A i \in 1..Len(utilRet[1]) : SpanDays(utilRet[1][i]) = utilArgs[1]

\* C16 witness: 14 days in chunks of 7 came back as two ranges of 7 days.
C16_Witness ==
  /\ DateRangesReturned
  /\ utilArgs = <<7, 14>>
  /\ Len(utilRet[1]) = 2
  /\ SpanDays(utilRet[1][1]) = 7
  /\ SpanDays(utilRet[1][2]) = 7

\* ------------------------------- claims on the strategy generators
MenuReturned == utilFn = "generateDefaultStrategiesMenu" /\ utilRet # <<>>

CappedReturned == utilFn = "generateDefaultStrategies" /\ utilRet # <<>>

\* C17: for daysAhead >= 1 no strategy of either generator has
\* concurrency > ceil(daysAhead / daysPerQuery) or daysPerQuery > daysAhead.
C17_NoExcessConcurrency ==
  (MenuReturned \/ CappedReturned) =>
    \A k \in 1..Len(utilRet[1]) :
      /\ utilRet[1][k].concurrency <= CeilDiv(utilArgs[1], utilRet[1][k].daysPerQuery)
      /\ utilRet[1][k].daysPerQuery <= utilArgs[1]

\* C17 witness: the fixed-menu generator, asked for 2 days, returned only the
\* two strategies with concurrency 1.
C17_Witness ==
  /\ MenuReturned
  /\ utilArgs = <<2>>
  /\ Len(utilRet[1]) = 2
  /\ \A k \in 1..2 : utilRet[1][k].concurrency = 1

\* The pairs (chunk size, concurrency) the fixed menu admits for totalDays.
MenuPairs(totalDays) ==
  {<<c, n>> \in {1, 2, 3, 5, 7, 10, 14, 21, 30} \X {1, 3, 5, 10, 20} :
     c <= totalDays /\ n <= CeilDiv(totalDays, c)}

\* C18: the fixed-menu generator returns exactly one strategy for each pair
\* (c, n) of the menu with c <= totalDays and n <= ceil(totalDays / c) and no
\* other; each is named "<c>d-<n>c", so names are unique; for totalDays = 1
\* the only strategy is 1d-1c.
C18_MenuCatalog ==
  MenuReturned =>
    /\ {<<utilRet[1][k].daysPerQuery, utilRet[1][k].concurrency>> : k \in 1..Len(utilRet[1])}
         = MenuPairs(utilArgs[1])
    /\ Len(utilRet[1]) = Cardinality(MenuPairs(utilArgs[1]))
    /\ \A k \in 1..Len(utilRet[1]) :
         utilRet[1][k].name = ToString(utilRet[1][k].daysPerQuery) \o "d-"
                                \o ToString(utilRet[1][k].concurrency) \o "c"
    /\ \A j, k \in 1..Len(utilRet[1]) : utilRet[1][j].name = utilRet[1][k].name => j = k
    /\ utilArgs[1] = 1 => (Len(utilRet[1]) = 1 /\ utilRet[1][1].name = "1d-1c")

\* C18 witness: for 30 days the catalog holds the whole chunk menu, with
\* 1d-20c and 30d-1c among its strategies.
C18_Witness ==
  /\ MenuReturned
  /\ utilArgs = <<30>>
  /\ \E k \in 1..Len(utilRet[1]) : utilRet[1][k].name = "1d-20c"
  /\ \E k \in 1..Len(utilRet[1]) : utilRet[1][k].name = "30d-1c"

\* C19: the capped generator returns exactly one strategy per chunk size of
\* the menu that is <= daysAhead, with concurrency
\* min(ceil(daysAhead / chunkSize), 30); none has concurrency above 30.
C19_CappedCatalog ==
  CappedReturned =>
    /\ {utilRet[1][k].daysPerQuery : k \in 1..Len(utilRet[1])}
         = {c \in {1, 2, 3, 5, 7, 10, 14, 21, 30} : c <= utilArgs[1]}
    /\ \A j, k \in 1..Len(utilRet[1]) :
         utilRet[1][j].daysPerQuery = utilRet[1][k].daysPerQuery => j = k
    /\ \A k \in 1..Len(utilRet[1]) :
         /\ utilRet[1][k].concurrency
              = Min(CeilDiv(utilArgs[1], utilRet[1][k].daysPerQuery), 30)
         /\ utilRet[1][k].concurrency <= 30

\* C19 witness: for 31 days the 1-day strategy would need 31 queries at once
\* and got concurrency 30.
C19_Witness ==
  /\ CappedReturned
  /\ utilArgs = <<31>>
  /\ utilRet[1][1].daysPerQuery = 1
  /\ utilRet[1][1].concurrency = 30

\* ------------------------------------------ claims on the command line
\* C20: every strategy optimize() evaluates, from the default catalog or from
\* the quick catalog, has concurrency <= ceil(daysAhead / daysPerQuery) for
\* the configured daysAhead >= 1.
C20_EvaluatedStrategiesFit ==
  (optPc \in {"trials", "batch"} /\ config.daysAhead >= 1) =>
    Strategies[strategyIdx].concurrency
      <= CeilDiv(config.daysAhead, Strategies[strategyIdx].daysPerQuery)

\* ------------------------------------- claims on calculatePercentiles
StatsReturned == utilFn = "calculatePercentiles" /\ utilRet # <<>>

Samples == utilArgs[1]

Metrics == utilRet[1]

\* The k-th smallest sample, k counted from 0.
KthSmallest(values, k) ==
  CHOOSE x \in Range(values) :
    /\ Cardinality({i \in 1..Len(values) : values[i] < x}) <= k
    /\ Cardinality({i \in 1..Len(values) : values[i] <= x}) > k

Interpolated(values, pct) ==
  LET idx100 == (Len(values) - 1) * pct
      below == idx100 \div 100
      frac100 == idx100 % 100
  IN  IF frac100 = 0 THEN 100 * KthSmallest(values, below)
      ELSE 100 * KthSmallest(values, below)
             + (KthSmallest(values, below + 1) - KthSmallest(values, below)) * frac100

SumOf(values) == Sum(values)

SumOfSquares(values) == Sum([i \in 1..Len(values) |-> values[i] * values[i]])

\* C22: for n >= 1 samples each percentile is the linear interpolation at
\* fractional index (n - 1) * p of the ascending samples (the element itself
\* at an integral index), whatever the order of the input; mean is the
\* arithmetic mean and stdDev the root of the population variance; 1..10 give
\* p50 = mean = 5.5, and a single sample x gives x everywhere and stdDev 0.
C22_InterpolatedPercentiles ==
  (StatsReturned /\ Len(Samples) >= 1) =>
    /\ Metrics.p25 = Interpolated(Samples, 25)
    /\ Metrics.p50 = Interpolated(Samples, 50)
    /\ Metrics.p75 = Interpolated(Samples, 75)
    /\ Metrics.p90 = Interpolated(Samples, 90)
    /\ Metrics.p95 = Interpolated(Samples, 95)
    /\ Metrics.p99 = Interpolated(Samples, 99)
    /\ Len(Samples) <= MaxSamples =>
         \A other \in Reorderings(Samples) : CalculatePercentiles(other) = Metrics
    /\ Metrics.mean.num * Len(Samples) = SumOf(Samples) * Metrics.mean.den
    /\ Metrics.mean.den > 0
    /\ Metrics.stdDev.sqrtOf.num * Len(Samples) * Len(Samples)
         = (Len(Samples) * SumOfSquares(Samples) - SumOf(Samples) * SumOf(Samples))
             * Metrics.stdDev.sqrtOf.den
    /\ Metrics.stdDev.sqrtOf.den > 0
    /\ Samples = <<1, 2, 3, 4, 5, 6, 7, 8, 9, 10>> =>
         (Metrics.p50 = 550 /\ Metrics.mean = [num |-> 11, den |-> 2])
    /\ Len(Samples) = 1 =>
         /\ \A m \in {Metrics.p0, Metrics.p25, Metrics.p50, Metrics.p75, Metrics.p90,
                        Metrics.p95, Metrics.p99, Metrics.p100} : m = 100 * Samples[1]
         /\ Metrics.stdDev.sqrtOf.num = 0

\* C22 witness: the samples 10, 1, 5, 8, 3, 7, 2, 9, 4, 6 came back with the
\* median 5.5 of 1..10.
C22_Witness ==
  /\ StatsReturned
  /\ Samples = <<10, 1, 5, 8, 3, 7, 2, 9, 4, 6>>
  /\ Metrics.p50 = 550
  /\ Metrics.p25 = 325

\* C23: on an empty sample set calculatePercentiles returns a record whose
\* mean and stdDev are NaN and whose percentiles are no numbers.
C23_EmptySampleSet ==
  (StatsReturned /\ Len(Samples) = 0) =>
    /\ IsNaNFraction(Metrics.mean)
    /\ IsNaNFraction(Metrics.stdDev.sqrtOf)
    /\ \A m \in {Metrics.p0, Metrics.p25, Metrics.p50, Metrics.p75, Metrics.p90,
                   Metrics.p95, Metrics.p99, Metrics.p100} : ~IsNumber(m)

\* C23 witness: the call with no sample has returned, with p50 NaN.
C23_Witness ==
  /\ StatsReturned
  /\ Samples = <<>>
  /\ Metrics.p50 = NaN

\* ---------------------------------------------------- AvailabilityClient
\* queryAvailability has generated its ranges.
ClientStarted == clientPc \in {"batch", "delay", "resolved", "rejected"}

ClientK == Len(dateRanges)

RangeDays(k) == dateRanges[k].startDate..dateRanges[k].endDate

\* C24: queryAvailability(vars, daysAhead) issues exactly
\* ceil(daysAhead / daysPerQuery) requests, one per date range; the ranges
\* are contiguous, do not overlap and cover exactly the day offsets
\* 0 .. daysAhead-1, every range but the last holding daysPerQuery days and
\* the last one the remainder.
C24_OneRequestPerRange ==
  ClientStarted =>
    /\ ClientK = CeilDiv(clientDaysAhead, clientConfig.daysPerQuery)
    /\ \A k \in 1..ClientK :
         /\ dateRanges[k].startDate <= dateRanges[k].endDate
         /\ dateRanges[k].startDate = (IF k = 1 THEN 0 ELSE dateRanges[k - 1].endDate + 1)
         /\ k < ClientK =>
              dateRanges[k].endDate - dateRanges[k].startDate + 1 = clientConfig.daysPerQuery
         /\ k = ClientK => dateRanges[k].endDate = clientDaysAhead - 1
         /\ clientStartCount[k] <= 1
    /\ UNION {RangeDays(k) : k \in 1..ClientK} = 0..(clientDaysAhead - 1)
    /\ \A k, l \in 1..ClientK : k # l => RangeDays(k) \cap RangeDays(l) = {}
    /\ clientPc = "resolved" => \A k \in 1..ClientK : clientStartCount[k] = 1

\* 30 days at 7 per query: five requests, the last range holding days 28, 29.
C24_Witness ==
  /\ clientPc = "resolved"
  /\ clientDaysAhead = 30
  /\ clientConfig.daysPerQuery = 7
  /\ ClientK = 5
  /\ dateRanges[5] = [startDate |-> 28, endDate |-> 29]
  /\ \A k \in 1..5 : clientStartCount[k] = 1

\* C25: the client never has more than maxConcurrency requests in flight,
\* whatever the number of ranges and the order of the answers.
C25_InFlightBounded ==
  Cardinality(ClientInFlight) <= clientConfig.maxConcurrency

\* A later batch is in flight in full while ranges are still waiting.
C25_Witness ==
  /\ clientPc = "batch"
  /\ batchStart > 0
  /\ clientConfig.maxConcurrency >= 2
  /\ Cardinality(ClientInFlight) = clientConfig.maxConcurrency
  /\ batchStart + clientConfig.maxConcurrency < ClientK

RequestFailed(r) == r.response \in {"network", "http"}

\* C26: queryAvailability never rejects because a request failed: a network
\* error or a non-OK status becomes a result with a non-empty errors list
\* and no data, the remaining ranges are still queried, and the returned
\* list has one result per range.
C26_FailuresBecomeResults ==
  /\ clientPc # "rejected"
  /\ \A k \in 1..ClientK :
       (queryResult[k] # <<>> /\ RequestFailed(queryResult[k][1])) =>
          queryResult[k][1].errors /\ ~queryResult[k][1].data /\ ~queryResult[k][1].thrown
  /\ clientPc = "resolved" =>
       /\ Len(clientResults) = ClientK
       /\ \A k \in 1..ClientK :
            /\ clientResults[k] = [range |-> k] @@ queryResult[k][1]
            /\ clientStartCount[k] = 1

\* A network error and a non-OK status in the first batch, data in a later one.
C26_Witness ==
  /\ clientPc = "resolved"
  /\ ClientK >= 3
  /\ clientConfig.maxConcurrency = 2
  /\ clientResults[1].response = "network"
  /\ clientResults[2].response = "http"
  /\ clientResults[ClientK].response = "data"
  /\ clientResults[ClientK].data

\* C27: the client retries: a chunk query whose request failed is issued
\* again instead of only being reported as an error result.
C27_FailedRequestIsRetried ==
  \A k \in 1..ClientK :
    (clientPc = "resolved" /\ RequestFailed(queryResult[k][1])) => clientStartCount[k] >= 2

\* ------------------------------------------------ optimize(), continued
\* C28: there is no timeout or abort path: as long as a request of the
\* running executor call stays unanswered, the call does not resolve, the
\* trial does not complete, and the optimizer starts no later trial or
\* strategy, ranks nothing, recommends nothing and writes nothing.
C28_HungRequestStallsOptimizer ==
  [][(optPc = "batch" /\ \E i \in Ids : <<batchNo, i>> \in net /\ <<batchNo, i>> \in net')
       => /\ optPc' = "batch"
          /\ exPc' \notin {"done", "rejected", "idle"}
          /\ batchNo' = batchNo
          /\ iter' = iter
          /\ strategyIdx' = strategyIdx
          /\ measurements' = measurements
          /\ optResults' = optResults
          /\ recommendation' = <<>>
          /\ fsCalls' = fsCalls]_vars

\* Everything of the trial is over but one request, which is on the wire,
\* and trials are still to come.
C28_Witness ==
  /\ optPc = "batch"
  /\ exPc = "all"
  /\ K >= 2
  /\ \E i \in Ids :
       /\ <<batchNo, i>> \in net
       /\ status[i] = "pending"
       /\ \A j \in Ids \ {i} : status[j] = "removed"
  /\ iter + 1 < config.iterations \/ strategyIdx < Len(Strategies)

\* C29: optimize() persists one snapshot {timestamp, config, results,
\* recommendation} per run, after the ranking: it first makes sure that
\* ./results exists (recursive mkdir) and then writes the snapshot to a file
\* under ./results/ named after the full current date and time.
C29_SnapshotUnderResults ==
  optPc = "returned" =>
    /\ Len(fsCalls) = 2
    /\ fsCalls[1].op = "mkdir"
    /\ fsCalls[2].op = "writeFile"
    /\ fsCalls[2].path.dir = "./results"
    /\ \E k \in 1..Len(fsCalls[2].path.stamp) : fsCalls[2].path.stamp[k].part = "time"
    /\ fsCalls[2].data.results = optResults
    /\ fsCalls[2].data.recommendation = recommendation[1].strategy

C31_NumericMediansStayOrdered ==
  Ranked =>
    \A i, j \in ResultIdx :
      (i < j /\ IsNumber(optResults[i].metrics.p50) /\ IsNumber(optResults[j].metrics.p50))
        => optResults[i].metrics.p50 <= optResults[j].metrics.p50

\* ------------------------------------------- the executor, continued
\* The closure of request i has resumed after its await and pushed.
Completed(i) == status[i] \in {"recorded", "removed"}

\* C32: at every point of a batch results.length + errors.length is the
\* number of requests completed (a request counts once its closure has
\* resumed after the await), results holding the succeeded ones and errors
\* the failed ones; when the call returns, results holds exactly one entry
\* per succeeded request and none for a failed one, results.length plus the
\* number of failures is K, and the error line was printed exactly when a
\* request failed.
C32_ResultsAndErrorsAccount ==
  /\ Len(results) + Len(errors) = Cardinality({i \in Ids : Completed(i)})
  /\ Len(results) + Len(errors) <= Cardinality({i \in Ids : Settled(i)})
  /\ \A i \in Ids :
       /\ Count(results, i) = (IF Completed(i) /\ ~failed[i] THEN 1 ELSE 0)
       /\ Count(errors, i) = (IF Completed(i) /\ failed[i] THEN 1 ELSE 0)
  /\ exPc = "done" =>
       /\ Len(results) + Cardinality({i \in Ids : failed[i]}) = K
       /\ errorLogged = (\E i \in Ids : failed[i])
  /\ exPc # "done" => ~errorLogged

\* A call over three ranges has returned: one request failed, two succeeded,
\* and the error line was printed.
C32_Witness ==
  /\ exPc = "done"
  /\ K = 3
  /\ Cardinality({i \in Ids : failed[i]}) = 1
  /\ Len(results) = 2
  /\ Len(errors) = 1
  /\ errorLogged

\* ------------------------------------------ AvailabilityClient, continued
\* The batch range k belongs to: batch j holds the ranges
\* j*maxConcurrency + 1 .. (j+1)*maxConcurrency (1-based positions).
BatchOf(k) == (k - 1) \div clientConfig.maxConcurrency

ClientIssued(k) == clientStartCount[k] > 0

\* C33: the client runs fixed batches of at most maxConcurrency ranges in
\* range order: a request of a batch is started only when every request of
\* every earlier batch has settled, all requests started together belong to
\* one batch, and the batches are started in order.
C33_FixedBatches ==
  ClientStarted =>
    /\ batchStart % clientConfig.maxConcurrency = 0
    /\ \A k \in 1..ClientK :
         ClientIssued(k) <=> BatchOf(k) <= (IF clientPc = "batch" \/ clientPc = "delay"
                                            THEN batchStart \div clientConfig.maxConcurrency
                                            ELSE BatchOf(ClientK))
    /\ \A k, l \in 1..ClientK :
         (ClientIssued(k) /\ BatchOf(l) < BatchOf(k)) => queryResult[l] # <<>>
    /\ \A k, l \in ClientInFlight : BatchOf(k) = BatchOf(l)

\* One request of the first batch is answered, another is not, and the next
\* range waits although the limit would allow it.
C33_Witness ==
  /\ clientPc = "batch"
  /\ batchStart = 0
  /\ clientConfig.maxConcurrency = 2
  /\ ClientK >= 3
  /\ queryResult[1] # <<>>
  /\ queryResult[2] = <<>>
  /\ ~ClientIssued(3)

\* Number of batches started so far.
BatchesStarted ==
  IF ClientK = 0 THEN 0
  ELSE IF clientPc = "resolved" THEN CeilDiv(ClientK, clientConfig.maxConcurrency)
  ELSE batchStart \div clientConfig.maxConcurrency + 1

\* C34: with requestDelay > 0 the client waits once between two consecutive
\* batches and never after the last one: ceil(K / maxConcurrency) - 1 waits
\* for K >= 1 ranges; with requestDelay = 0 it never waits.
C34_DelaysBetweenBatches ==
  ClientStarted =>
    /\ clientConfig.requestDelay = 0 => (delays = 0 /\ clientPc # "delay")
    /\ clientPc = "delay" =>
         /\ batchStart + clientConfig.maxConcurrency < ClientK
         /\ delays = BatchesStarted
    /\ (clientConfig.requestDelay > 0 /\ clientPc \in {"batch", "resolved"} /\ ClientK >= 1)
         => delays = BatchesStarted - 1
    /\ (clientConfig.requestDelay > 0 /\ clientPc = "resolved" /\ ClientK >= 1)
         => delays = CeilDiv(ClientK, clientConfig.maxConcurrency) - 1

\* Five ranges, two at a time, with a delay: three batches, two waits.
C34_Witness ==
  /\ clientPc = "resolved"
  /\ clientConfig.requestDelay > 0
  /\ clientConfig.maxConcurrency = 2
  /\ ClientK = 5
  /\ delays = 2

\* ------------------------------------------- the executor, continued
\* C35: called with concurrency <= 0 and at least one range, the executor
\* starts no request and never resolves: it waits on a race over an empty
\* in-flight list; called with no range, it resolves with no results
\* whatever the concurrency.
C35_NoWindowNeverResolves ==
  /\ []((concurrency <= 0 /\ K >= 1 /\ exPc # "idle") =>
          /\ exPc = "race"
          /\ awaited = {}
          /\ inFlight = <<>>
          /\ net = {}
          /\ \A i \in Ids : startCount[i] = 0)
  /\ []((K = 0 /\ exPc # "idle") =>
          /\ exPc \in {"all", "done"}
          /\ results = <<>>
          /\ net = {})
  /\ (K = 0 => <>(exPc = "done"))

\* A call with concurrency 0 over several ranges is stuck in its first race.
C35_Witness ==
  /\ concurrency <= 0
  /\ K >= 2
  /\ exPc = "race"
  /\ nextIdx = 1
  /\ awaited = {}

\* ------------------------------------------------ optimize(), continued
\* C36: optimize() resolves only with a recommendation that is an element
\* of the results list it returns; with an empty strategy list
\* (config.strategies = [] or the default catalog of daysAhead < 1) it
\* rejects instead and writes no snapshot.
C36_RecommendationIsAResult ==
  /\ optPc \in {"ranked", "returned"} =>
       /\ Len(Strategies) > 0
       /\ recommendation # <<>>
       /\ \E k \in ResultIdx : optResults[k] = recommendation[1]
  /\ (optPc # "off" /\ Len(Strategies) = 0) =>
       /\ optPc \in {"strategies", "rejected"}
       /\ recommendation = <<>>
       /\ fsCalls = <<>>
  /\ optPc = "rejected" => (Len(Strategies) = 0 /\ fsCalls = <<>>)

\* The default catalog of daysAhead = 0 is empty and optimize() has rejected.
C36_Witness ==
  /\ optPc = "rejected"
  /\ config.strategies = <<>>
  /\ config.daysAhead = 0
  /\ optResults = <<>>
  /\ fsCalls = <<>>

\* C37: calculatePercentiles leaves its input array as it was, so a
\* strategy's measurements stay in trial order, one entry per successful
\* trial, and totalTime is their sum.
C37_MeasurementsKeepTrialOrder ==
  [][/\ (optPc = "batch" /\ optPc' = "trials") =>
          measurements' = Append(measurements, duration)
     /\ (optPc = "trials" /\ optPc' = "trials") => measurements' = measurements
     /\ (optPc = "trials" /\ optPc' = "strategies") =>
          /\ measurements' = measurements
          /\ optResults'[Len(optResults')].measurements = measurements
          /\ optResults'[Len(optResults')].totalTime = Sum(measurements)
          /\ Len(measurements) = config.iterations - totalErrors
     /\ (optPc = "strategies" /\ optPc' = "ranked") =>
          \A k \in 1..Len(optResults) : \E l \in 1..Len(optResults') :
            optResults'[l] = optResults[k]]_vars

\* A strategy whose first trial took 2 ms and whose second took 1 ms is in
\* the ranked results with its measurements in that order.
C37_Witness ==
  /\ optPc \in {"ranked", "returned"}
  /\ \E k \in ResultIdx :
       /\ optResults[k].measurements = <<2, 1>>
       /\ optResults[k].totalTime = 3
       /\ optResults[k].metrics.p0 = 100

\* --------------------------- the two generators of date ranges compared
\* C38: for the same chunk size and number of days the client's
\* generateDateRanges and the optimizer's give the same sequence of ranges,
\* as (start offset, end offset) in days from the start date.
C38_SameRangesAsTheClient ==
  DateRangesReturned =>
    LET optimizerRanges == utilRet[1]
        clientRanges == ClientGenerateDateRanges(utilArgs[1], utilArgs[2])
    IN  [k \in 1..Len(optimizerRanges) |->
            <<optimizerRanges[k].start, optimizerRanges[k].end>>]
        = [k \in 1..Len(clientRanges) |->
            <<clientRanges[k].startDate, clientRanges[k].endDate>>]

\* ------------------------------------------- the executor, continued
\* Requests started whose completion callback has not run.
NotRemoved == {i \in Ids : startCount[i] > 0 /\ status[i] # "removed"}

\* C39: each completion removes exactly its own entry from the in-flight
\* list: the entry is there when the callback runs, it is removed once and
\* no other entry is, so the list always holds exactly the started requests
\* whose completion callback has not run.
C39_InFlightIsExact ==
  /\ [](/\ Range(inFlight) = NotRemoved
        /\ Len(inFlight) = Cardinality(NotRemoved))
  /\ [][\A i \in Ids :
          /\ (status[i] # "removed" /\ status'[i] = "removed") =>
               /\ IndexOf(inFlight, i) >= 0
               /\ Len(inFlight') = Len(inFlight) - 1
               /\ Range(inFlight') = Range(inFlight) \ {i}
          /\ (exPc # "idle" /\ status[i] = "removed") =>
               (status'[i] = "removed" /\ i \notin Range(inFlight'))]_vars

\* The first of three requests in flight has completed and left the list;
\* the two behind it are still in it.
C39_Witness ==
  /\ concurrency >= 3
  /\ K >= 3
  /\ status[1] = "removed"
  /\ inFlight = <<2, 3>>


====
